---- MODULE Spec2Model ----
(***************************************************************************)
(* Model of the xyY colour datapoint codec (xknx/dpt/dpt_color.py), of the *)
(* remote value that uses it (exercised by                                 *)
(* test/remote_value_tests/remote_value_color_xyy_test.py) and of the USB  *)
(* interface that hands queued telegrams to the USB client                 *)
(* (xknx/io/usb_interface.py).                                             *)
(*                                                                         *)
(* Representation of Python values:                                        *)
(*   None / a present value v   <<>> / <<v>>                               *)
(*   a float or int axis value  the exact rational [num, den] in lowest    *)
(*                              terms (den > 0)                            *)
(*   a returned value v         [ret |-> v]                                *)
(*   a raised exception e       [exc |-> e]                                *)
(*   DPTArray((b0, ..))         [kind |-> "DPTArray", value |-> <<b0,..>>] *)
(*   DPTBinary(v)               [kind |-> "DPTBinary", value |-> <<v>>]    *)
(* The two roundings of the codec, round(n / 0xFFFF, 5) and                *)
(* round(axis * 0xFFFF), are computed on the exact rationals with ties to  *)
(* even; on every n in 0..65535 and every axis k/100000 this agrees with   *)
(* the double-precision result of the Python expressions.                  *)
(***************************************************************************)
EXTENDS Integers, Sequences, FiniteSets, TLC

VARIABLES
    value,        \* RemoteValue.value: the cached dictionary, None at first
    telegrams,    \* xknx.telegrams: the outbound queue
    sent,         \* telegrams handed to usb_client.send_telegram, in order
    history,      \* ghost: the arguments of the successful set calls, in order
    last,         \* ghost: the last remote value call, its outcome, the state before it
    applied,      \* ghost: payload of the last process call that returned True
    c_pc,         \* codec run: position in the conversion chain
    c_in,         \* codec run: the input (a mapping or a payload)
    c_value,      \* codec run: outcome of producing the XYYColor
    c_payload,    \* codec run: outcome of to_knx
    c_back        \* codec run: outcome of the conversion back

vars == <<value, telegrams, sent, history, last, applied,
          c_pc, c_in, c_value, c_payload, c_back>>

bridgeVars == <<value, telegrams, sent, history, last, applied>>
codecVars == <<c_pc, c_in, c_value, c_payload, c_back>>

(***************************************************************************)
(* Python values                                                           *)
(***************************************************************************)
None == <<>>
Some(v) == <<v>>
IsNone(o) == o = <<>>
Get(o) == o[1]

Return(v) == [ret |-> v]
Raise(e) == [exc |-> e]
Raised(r) == "exc" \in DOMAIN r
Returned(r) == "ret" \in DOMAIN r

ConversionError == Raise("ConversionError")

RECURSIVE Gcd(_, _)
Gcd(a, b) == IF b = 0 THEN a ELSE Gcd(b, a % b)

Abs(a) == IF a < 0 THEN -a ELSE a

\* The number num/den in lowest terms.
Frac(num, den) ==
    LET g == Gcd(Abs(num), den)
    IN  [num |-> num \div g, den |-> den \div g]

\* The exact product q * k of a rational and a positive integer.
MulInt(q, k) ==
    LET g == Gcd(q.den, k)
    IN  [num |-> q.num * (k \div g), den |-> q.den \div g]

\* 0 <= q <= 1
InUnit(q) == 0 <= q.num /\ q.num <= q.den

\* Python's round(q) for q >= 0: the nearest integer, ties to even.
Round(q) ==
    LET n == q.num \div q.den
        r == q.num % q.den
    IN  IF 2 * r < q.den THEN n
        ELSE IF 2 * r > q.den THEN n + 1
        ELSE IF n % 2 = 0 THEN n ELSE n + 1

Digits5 == 100000

\* Python's round(q, 5) for q >= 0.
Round5(q) == Frac(Round(MulInt(q, Digits5)), Digits5)

DPTArray(bytes) == [kind |-> "DPTArray", value |-> bytes]
DPTBinary(bit) == [kind |-> "DPTBinary", value |-> <<bit>>]

\* XYYColor(color=.., brightness=..)
XYYColor(color, brightness) == [color |-> color, brightness |-> brightness]

(***************************************************************************)
(* xknx/dpt/dpt_color.py                                                   *)
(***************************************************************************)
xFFFF == 65535

payload_type == "DPTArray"
payload_length == 6

\* XYYColor.from_dict: data is a mapping with the keys x_axis, y_axis and
\* brightness, each None when the key is missing.
from_dict(data) ==
    IF ~IsNone(data.x_axis) /\ ~IsNone(data.y_axis)
    THEN IF ~InUnit(Get(data.x_axis)) \/ ~InUnit(Get(data.y_axis))
         THEN ConversionError
         ELSE Return(XYYColor(Some(<<Get(data.x_axis), Get(data.y_axis)>>),
                              data.brightness))
    ELSE Return(XYYColor(None, data.brightness))

\* XYYColor.to_dict
to_dict(self) ==
    [x_axis |-> IF ~IsNone(self.color) THEN Some(Get(self.color)[1]) ELSE None,
     y_axis |-> IF ~IsNone(self.color) THEN Some(Get(self.color)[2]) ELSE None,
     brightness |-> self.brightness]

\* DPTBase.validate_payload: the payload's bytes when it is of payload_type
\* and of payload_length, a conversion error otherwise.
validate_payload(payload) ==
    IF payload.kind = payload_type /\ Len(payload.value) = payload_length
    THEN Return(payload.value)
    ELSE ConversionError

\* raw[5] >> 1 & 0b1 and raw[5] & 0b1
ColorValidBit(byte) == (byte \div 2) % 2
BrightnessValidBit(byte) == byte % 2

\* Faulty variants of the body of from_knx, each with one slip: the two axes
\* read from each other's bytes; the fractions rounded to 4 digits; the
\* colour flag taken as raw[5] >> (1 & 0b1).
from_knx_raw_swapped(raw) ==
    XYYColor(IF ColorValidBit(raw[6]) # 0
             THEN Some(<<Round5(Frac(raw[3] * 256 + raw[4], xFFFF)),
                         Round5(Frac(raw[1] * 256 + raw[2], xFFFF))>>)
             ELSE None,
             IF BrightnessValidBit(raw[6]) # 0 THEN Some(raw[5]) ELSE None)

from_knx_raw_round4(raw) ==
    XYYColor(IF ColorValidBit(raw[6]) # 0
             THEN Some(<<Frac(Round(MulInt(Frac(raw[1] * 256 + raw[2], xFFFF), 10000)), 10000),
                         Frac(Round(MulInt(Frac(raw[3] * 256 + raw[4], xFFFF), 10000)), 10000)>>)
             ELSE None,
             IF BrightnessValidBit(raw[6]) # 0 THEN Some(raw[5]) ELSE None)

from_knx_raw_precedence(raw) ==
    XYYColor(IF raw[6] \div 2 # 0
             THEN Some(<<Round5(Frac(raw[1] * 256 + raw[2], xFFFF)),
                         Round5(Frac(raw[3] * 256 + raw[4], xFFFF))>>)
             ELSE None,
             IF BrightnessValidBit(raw[6]) # 0 THEN Some(raw[5]) ELSE None)

\* The body of DPTColorXYY.from_knx after validate_payload.
from_knx_raw(raw) ==
    LET x_axis_int == raw[1] * 256 + raw[2]
        y_axis_int == raw[3] * 256 + raw[4]
        brightness == raw[5]
        color_valid == ColorValidBit(raw[6])
        brightness_valid == BrightnessValidBit(raw[6])
    IN  XYYColor(IF color_valid # 0
                 THEN Some(<<Round5(Frac(x_axis_int, xFFFF)),
                             Round5(Frac(y_axis_int, xFFFF))>>)
                 ELSE None,
                 IF brightness_valid # 0 THEN Some(brightness) ELSE None)

\* Faulty variant of from_knx: the payload is not validated, missing bytes
\* read as zero and surplus bytes are ignored.
from_knx_unchecked(payload) ==
    Return(from_knx_raw([i \in 1..payload_length |->
                           IF i <= Len(payload.value) THEN payload.value[i] ELSE 0]))

\* DPTColorXYY.from_knx
from_knx(payload) ==
    LET raw == validate_payload(payload)
    IN  IF Raised(raw) THEN raw ELSE Return(from_knx_raw(raw.ret))

\* Faulty variants of to_knx: out-of-range fields are clamped instead of
\* rejected; the axes are truncated (int) instead of rounded.
Clamp(lo, x, hi) == IF x < lo THEN lo ELSE IF x > hi THEN hi ELSE x

ClampUnit(q) == IF q.num < 0 THEN Frac(0, 1) ELSE IF q.num > q.den THEN Frac(1, 1) ELSE q

to_knx_clamp(v) ==
    LET x_axis == IF IsNone(v.color) THEN 0
                  ELSE Round(MulInt(ClampUnit(Get(v.color)[1]), xFFFF))
        y_axis == IF IsNone(v.color) THEN 0
                  ELSE Round(MulInt(ClampUnit(Get(v.color)[2]), xFFFF))
        brightness == IF IsNone(v.brightness) THEN 0
                      ELSE Clamp(0, Get(v.brightness), 255)
    IN  Return(DPTArray(<<x_axis \div 256, x_axis % 256,
                          y_axis \div 256, y_axis % 256,
                          brightness,
                          (IF IsNone(v.color) THEN 0 ELSE 2)
                          + (IF IsNone(v.brightness) THEN 0 ELSE 1)>>))

Trunc(q) == q.num \div q.den

to_knx_trunc(v) ==
    LET colorBad == ~IsNone(v.color)
                    /\ \E i \in 1..2 : ~InUnit(Get(v.color)[i])
        brightBad == ~IsNone(v.brightness)
                     /\ ~(0 <= Get(v.brightness) /\ Get(v.brightness) <= 255)
        x_axis == IF IsNone(v.color) THEN 0
                  ELSE Trunc(MulInt(Get(v.color)[1], xFFFF))
        y_axis == IF IsNone(v.color) THEN 0
                  ELSE Trunc(MulInt(Get(v.color)[2], xFFFF))
        brightness == IF IsNone(v.brightness) THEN 0 ELSE Get(v.brightness)
    IN  IF colorBad \/ brightBad
        THEN ConversionError
        ELSE Return(DPTArray(<<x_axis \div 256, x_axis % 256,
                               y_axis \div 256, y_axis % 256,
                               brightness,
                               (IF IsNone(v.color) THEN 0 ELSE 2)
                               + (IF IsNone(v.brightness) THEN 0 ELSE 1)>>))

\* DPTColorXYY.to_knx
to_knx(v) ==
    LET colorBad == ~IsNone(v.color)
                    /\ \E i \in 1..2 : ~InUnit(Get(v.color)[i])
        brightBad == ~IsNone(v.brightness)
                     /\ ~(0 <= Get(v.brightness) /\ Get(v.brightness) <= 255)
        color_valid == IF IsNone(v.color) THEN 0 ELSE 1
        brightness_valid == IF IsNone(v.brightness) THEN 0 ELSE 1
        x_axis == IF IsNone(v.color) THEN 0
                  ELSE Round(MulInt(Get(v.color)[1], xFFFF))
        y_axis == IF IsNone(v.color) THEN 0
                  ELSE Round(MulInt(Get(v.color)[2], xFFFF))
        brightness == IF IsNone(v.brightness) THEN 0 ELSE Get(v.brightness)
    IN  IF colorBad \/ brightBad
        THEN ConversionError
        ELSE Return(DPTArray(<<x_axis \div 256, x_axis % 256,
                               y_axis \div 256, y_axis % 256,
                               brightness,
                               color_valid * 2 + brightness_valid>>))

(***************************************************************************)
(* The remote value (RemoteValueColorXYY): one group address, the cached   *)
(* value, the outbound queue xknx.telegrams.                               *)
(***************************************************************************)
group_address == "1/2/3"
GroupAddresses == {"1/2/3", "1/2/4"}

\* Telegram(destination_address=.., payload=GroupValueWrite(dpt)); a
\* GroupValueRead carries no value.
Telegram(destination_address, apci, v) ==
    [destination_address |-> destination_address, apci |-> apci, value |-> v]

GroupValueWrite(destination_address, dpt) ==
    Telegram(destination_address, "GroupValueWrite", Some(dpt))

GroupValueRead(destination_address) ==
    Telegram(destination_address, "GroupValueRead", None)

\* RemoteValueColorXYY.to_knx: the mapping is made an XYYColor and serialized.
rv_to_knx(data) ==
    LET v == from_dict(data)
    IN  IF Raised(v) THEN v ELSE to_knx(v.ret)

\* RemoteValueColorXYY.from_knx: the payload is parsed and given as a mapping.
rv_from_knx(payload) ==
    LET v == from_knx(payload)
    IN  IF Raised(v) THEN v ELSE Return(to_dict(v.ret))

\* RemoteValue.process: the returned boolean and the cached value afterwards.
process(cached, telegram) ==
    IF telegram.destination_address # group_address
    THEN [ret |-> FALSE, value |-> cached]
    ELSE IF telegram.apci # "GroupValueWrite"
    THEN [ret |-> FALSE, value |-> cached]
    ELSE IF Get(telegram.value).kind # payload_type
    THEN [ret |-> FALSE, value |-> cached]
    ELSE LET decoded == rv_from_knx(Get(telegram.value))
         IN  IF Raised(decoded)
             THEN [ret |-> FALSE, value |-> cached]
             ELSE [ret |-> TRUE, value |-> Some(decoded.ret)]

\* RemoteValue.set: the outcome of the call and the queue afterwards.
set(queue, data) ==
    LET payload == rv_to_knx(data)
    IN  IF Raised(payload)
        THEN [out |-> payload, telegrams |-> queue]
        ELSE [out |-> Return(None),
              telegrams |-> Append(queue, GroupValueWrite(group_address, payload.ret))]

(***************************************************************************)
(* xknx/io/usb_interface.py                                                *)
(***************************************************************************)
\* Faulty variant of send_telegram: the telegram is not handed on.
send_telegram_lost(client, telegram) == client

\* USBInterface.send_telegram: the telegram is handed to the USB client;
\* client is the sequence of telegrams the client was given so far.
send_telegram(client, telegram) == Append(client, telegram)

(***************************************************************************)
(* Inputs                                                                  *)
(***************************************************************************)
MaxSets == 2

Dict(x_axis, y_axis, brightness) ==
    [x_axis |-> x_axis, y_axis |-> y_axis, brightness |-> brightness]

SetValues ==
    { Dict(Some(Frac(1, 1)), Some(Frac(9, 10)), Some(102)),
      Dict(Some(Frac(1, 1)), Some(Frac(9, 10)), Some(255)),
      Dict(Some(Frac(3, 10)), Some(Frac(1, 2)), None),
      Dict(None, None, Some(0)),
      Dict(Some(Frac(1, 1)), None, Some(1)),
      Dict(Some(Frac(2, 1)), Some(Frac(1, 1)), Some(1)),
      Dict(Some(Frac(-1, 1)), Some(Frac(1, 1)), Some(2)),
      Dict(Some(Frac(3, 10)), Some(Frac(1, 2)), Some(256)) }

ProcessPayloads ==
    { DPTArray(<<255, 255, 102, 102, 250, 3>>),
      DPTArray(<<153, 153, 153, 153, 102, 3>>),
      DPTArray(<<255, 255, 255, 255, 16, 1>>),
      DPTArray(<<100, 101, 102, 103>>),
      DPTArray(<<255, 255, 102, 102, 250, 3, 0>>),
      DPTArray(<<>>),
      DPTBinary(1) }

ProcessTelegrams ==
    {GroupValueWrite(a, p) : a \in GroupAddresses, p \in ProcessPayloads}
    \cup {GroupValueRead(a) : a \in GroupAddresses}

Unset == [unset |-> TRUE]

BridgeIdle ==
    /\ value = None
    /\ telegrams = <<>>
    /\ sent = <<>>
    /\ history = <<>>
    /\ last = [op |-> "init"]
    /\ applied = None

CodecIdle ==
    /\ c_pc = "idle"
    /\ c_in = Unset
    /\ c_value = Unset
    /\ c_payload = Unset
    /\ c_back = Unset

(***************************************************************************)
(* The remote value's operations                                           *)
(***************************************************************************)
Init == BridgeIdle /\ CodecIdle

\* await remote_value.set(data)
Set(data) ==
    LET r == set(telegrams, data)
    IN  /\ Raised(r.out) \/ Len(history) < MaxSets
        /\ telegrams' = r.telegrams
        /\ history' = IF Raised(r.out) THEN history ELSE Append(history, data)
        /\ last' = [op |-> "set", arg |-> data, out |-> r.out,
                    value |-> value, telegrams |-> telegrams]
        /\ UNCHANGED <<value, sent, applied>>

\* await remote_value.process(telegram)
Process(telegram) ==
    LET r == process(value, telegram)
    IN  /\ value' = r.value
        /\ applied' = IF r.ret THEN telegram.value ELSE applied
        /\ last' = [op |-> "process", arg |-> telegram, out |-> Return(r.ret),
                    value |-> value, telegrams |-> telegrams]
        /\ UNCHANGED <<telegrams, sent, history>>

\* The consumer: telegram = await xknx.telegrams.get(), then
\* await interface.send_telegram(telegram).
Send ==
    /\ telegrams # <<>>
    /\ telegrams' = Tail(telegrams)
    /\ sent' = send_telegram(sent, Head(telegrams))
    /\ last' = [op |-> "send", arg |-> Head(telegrams), out |-> Return(None),
                value |-> value, telegrams |-> telegrams]
    /\ UNCHANGED <<value, history, applied>>

Next ==
    \/ \E data \in SetValues : Set(data) /\ UNCHANGED codecVars
    \/ \E telegram \in ProcessTelegrams : Process(telegram) /\ UNCHANGED codecVars
    \/ Send /\ UNCHANGED codecVars

Spec == Init /\ [][Next]_vars

(***************************************************************************)
(* Runs of the codec alone.  A run starts from a mapping (from_dict, to_knx,*)
(* then from_knx of the result), from an XYYColor (to_knx, then from_knx)  *)
(* or from a payload (from_knx, then to_knx of the result), and stops at   *)
(* the first conversion that raises.                                       *)
(***************************************************************************)
RawSamples == {0, 1, 26214, 39321, 58982, 65534, 65535}
RawSamplesY == {0, 26214, 65535}
ByteSamples == {0, 102, 250, 255}
MaskBytes == 0..255

AxisSamples ==
    { Frac(0, 1), Frac(1, 1), Frac(9, 10), Frac(3, 10), Frac(1, 2),
      Frac(1, 100000), Frac(99999, 100000), Frac(100001, 100000),
      Frac(-1, 100000), Frac(2, 1), Frac(-1, 1), Frac(12345, 65535) }

BrightnessSamples == {-1, 0, 1, 102, 255, 256}

Optional(S) == {None} \cup {Some(x) : x \in S}

DictInputs ==
    { Dict(x, y, b) : x \in Optional(AxisSamples),
                      y \in Optional({Frac(0, 1), Frac(9, 10), Frac(1, 1), Frac(2, 1)}),
                      b \in Optional(BrightnessSamples) }

ColorInputs ==
    { XYYColor(c, b) :
        c \in Optional({<<x, y>> : x \in AxisSamples, y \in {Frac(0, 1), Frac(2, 1)}}),
        b \in Optional(BrightnessSamples) }

Bytes16(n) == <<n \div 256, n % 256>>

PayloadInputs ==
    { DPTArray(Bytes16(x) \o Bytes16(y) \o <<b, m>>) :
        x \in RawSamples, y \in RawSamplesY, b \in ByteSamples, m \in MaskBytes }
    \cup ProcessPayloads
    \cup { DPTArray(<<255, 255, 255, 255, 255>>), DPTBinary(0) }

StartDict(data) ==
    /\ c_pc = "dict"
    /\ c_in = data
    /\ c_value = Unset
    /\ c_payload = Unset
    /\ c_back = Unset

StartValue(v) ==
    /\ c_pc = "value"
    /\ c_in = v
    /\ c_value = Return(v)
    /\ c_payload = Unset
    /\ c_back = Unset

StartPayload(payload) ==
    /\ c_pc = "payload"
    /\ c_in = payload
    /\ c_value = Unset
    /\ c_payload = Unset
    /\ c_back = Unset

InitCodec ==
    /\ BridgeIdle
    /\ \/ \E data \in DictInputs : StartDict(data)
       \/ \E v \in ColorInputs : StartValue(v)
       \/ \E payload \in PayloadInputs : StartPayload(payload)

\* XYYColor.from_dict(data)
FromDict ==
    /\ c_pc = "dict"
    /\ c_value' = from_dict(c_in)
    /\ c_pc' = IF Raised(c_value') THEN "raised" ELSE "value"
    /\ UNCHANGED <<c_in, c_payload, c_back>>

\* DPTColorXYY.to_knx(value)
ToKnx ==
    /\ c_pc = "value"
    /\ c_payload' = to_knx(c_value.ret)
    /\ c_pc' = IF Raised(c_payload') THEN "raised" ELSE "encoded"
    /\ UNCHANGED <<c_in, c_value, c_back>>

\* DPTColorXYY.from_knx of the payload to_knx returned
FromKnxBack ==
    /\ c_pc = "encoded"
    /\ c_back' = from_knx(c_payload.ret)
    /\ c_pc' = "roundtrip"
    /\ UNCHANGED <<c_in, c_value, c_payload>>

\* DPTColorXYY.from_knx(payload)
FromKnx ==
    /\ c_pc = "payload"
    /\ c_value' = from_knx(c_in)
    /\ c_pc' = IF Raised(c_value') THEN "raised" ELSE "decoded"
    /\ UNCHANGED <<c_in, c_payload, c_back>>

\* DPTColorXYY.to_knx of the value from_knx returned
ToKnxBack ==
    /\ c_pc = "decoded"
    /\ c_back' = to_knx(c_value.ret)
    /\ c_pc' = "reencoded"
    /\ UNCHANGED <<c_in, c_value, c_payload>>

NextCodec ==
    \/ FromDict /\ UNCHANGED bridgeVars
    \/ ToKnx /\ UNCHANGED bridgeVars
    \/ FromKnxBack /\ UNCHANGED bridgeVars
    \/ FromKnx /\ UNCHANGED bridgeVars
    \/ ToKnxBack /\ UNCHANGED bridgeVars

SpecCodec == InitCodec /\ [][NextCodec]_vars

\* Every 16-bit raw value n on the x axis (the y axis takes them in the
\* opposite order, the brightness takes every byte), once as the payload
\* with both fields valid and once as the mapping with the axes n / 0xFFFF.
InitRoundTrip ==
    /\ BridgeIdle
    /\ \E n \in 0..xFFFF :
         \/ StartPayload(DPTArray(Bytes16(n) \o Bytes16(xFFFF - n) \o <<n % 256, 3>>))
         \/ StartDict(Dict(Some(Frac(n, xFFFF)), Some(Frac(xFFFF - n, xFFFF)),
                           Some(n % 256)))

SpecRoundTrip == InitRoundTrip /\ [][NextCodec]_vars

(***************************************************************************)
(* Properties of the remote value (checked under Spec)                     *)
(***************************************************************************)
TestPayload == DPTArray(<<255, 255, 102, 102, 250, 3>>)
TestValue == Dict(Some(Frac(1, 1)), Some(Frac(2, 5)), Some(250))

\* A write to the remote value's own address carrying a 6-byte array.
WellFormedWrite(telegram) ==
    /\ telegram.destination_address = group_address
    /\ telegram.apci = "GroupValueWrite"
    /\ Get(telegram.value).kind = "DPTArray"
    /\ Len(Get(telegram.value).value) = 6

\* C1: the cached value is None as long as no process call has returned
\* True, and otherwise is the decoding of the payload of the last process
\* call that returned True; set calls never change it.  A process call on a
\* write to the own address with a 6-byte array returns True and caches the
\* decoding of its payload; FF FF 66 66 FA 03 is cached as
\* x_axis 1, y_axis 0.4, brightness 250.
C1_CacheIsLastApplied ==
    /\ value = IF IsNone(applied) THEN None
               ELSE Some(rv_from_knx(Get(applied)).ret)
    /\ applied = Some(TestPayload) => value = Some(TestValue)
    /\ last.op = "set" => value = last.value
    /\ (last.op = "process" /\ WellFormedWrite(last.arg))
         => /\ last.out = Return(TRUE)
            /\ applied = last.arg.value

\* The test's telegram was processed, three more calls followed and did not
\* disturb the cache: the last one is a set.
C1_Witness ==
    /\ value = Some(TestValue)
    /\ last.op = "set"
    /\ Len(history) = 2

\* C2: a process call on a telegram for another address, on a telegram that
\* is no write, or on a write whose payload is a single bit or an array of
\* another length than 6 returns False (it raises nothing) and leaves the
\* cached value as it was.
C2_RejectedLeavesCache ==
    (last.op = "process" /\ ~WellFormedWrite(last.arg))
      => /\ last.out = Return(FALSE)
         /\ value = last.value

\* A 4-byte write to the own address is rejected while a value is cached.
C2_Witness ==
    /\ last.op = "process"
    /\ last.arg = GroupValueWrite(group_address, DPTArray(<<100, 101, 102, 103>>))
    /\ last.out = Return(FALSE)
    /\ value = Some(TestValue)

\* The write telegram a successful set(data) queues.
Queued(data) == GroupValueWrite(group_address, rv_to_knx(data).ret)

\* C3: a set call that succeeds appends exactly one write telegram for the
\* own address, carrying the encoding of its argument, at the tail of the
\* queue; the telegrams the consumer has taken, followed by those still
\* queued, are the encodings of the successful set calls in call order.
C3_QueueIsFifo ==
    /\ sent \o telegrams = [i \in 1..Len(history) |-> Queued(history[i])]
    /\ (last.op = "set" /\ Returned(last.out))
         => telegrams = Append(last.telegrams, Queued(last.arg))

\* Two different values were set, the first was taken by the consumer and
\* the second is still queued.
C3_Witness ==
    /\ sent = <<GroupValueWrite(group_address, DPTArray(<<255, 255, 230, 102, 102, 3>>))>>
    /\ telegrams = <<GroupValueWrite(group_address, DPTArray(<<255, 255, 230, 102, 255, 3>>))>>

\* A mapping with both axes of which one is outside [0, 1], or with a
\* brightness outside [0, 255].
AxisOutOfDomain(data) ==
    /\ ~IsNone(data.x_axis) /\ ~IsNone(data.y_axis)
    /\ \E q \in {Get(data.x_axis), Get(data.y_axis)} : q.num < 0 \/ q.num > q.den

OutOfDomain(data) ==
    \/ AxisOutOfDomain(data)
    \/ ~IsNone(data.brightness) /\ Get(data.brightness) \notin 0..255

\* C4: a set call whose argument the encoding rejects raises the conversion
\* error to its caller and leaves the queue as it was.
C4_RejectedSetQueuesNothing ==
    (last.op = "set" /\ (OutOfDomain(last.arg) \/ Raised(rv_to_knx(last.arg))))
      => /\ last.out = ConversionError
         /\ telegrams = last.telegrams

\* Brightness 256 is rejected while a telegram is queued.
C4_Witness ==
    /\ last.op = "set"
    /\ last.arg = Dict(Some(Frac(3, 10)), Some(Frac(1, 2)), Some(256))
    /\ last.out = ConversionError
    /\ Len(telegrams) = 1

(***************************************************************************)
(* Properties of the codec (checked under SpecCodec and SpecRoundTrip)     *)
(***************************************************************************)
StartedFromDict == "x_axis" \in DOMAIN c_in
StartedFromPayload == "kind" \in DOMAIN c_in

\* The 16-bit number in two big-endian bytes of a payload.
Word(bytes, i) == bytes[i] * 256 + bytes[i + 1]

\* A mapping with a brightness and both axes, each of the form n / 65535.
Sixteenths(data) ==
    /\ ~IsNone(data.brightness)
    /\ ~IsNone(data.x_axis) /\ 65535 % Get(data.x_axis).den = 0
    /\ ~IsNone(data.y_axis) /\ 65535 % Get(data.y_axis).den = 0

\* C5: for x = n / 65535, y = m / 65535 and a brightness b in 0..255,
\* decoding the encoding of {color: (x, y), brightness: b} gives brightness b
\* and the colour (x, y) rounded to 5 decimal digits; and encoding the
\* decoding of a payload with both fields valid gives the payload back, so
\* no two 16-bit raw values decode to the same fraction.
C5_RoundTrip ==
    /\ (c_pc = "roundtrip" /\ StartedFromDict /\ Sixteenths(c_in))
         => c_back = Return(XYYColor(
                        Some(<<Round5(Get(c_in.x_axis)), Round5(Get(c_in.y_axis))>>),
                        c_in.brightness))
    /\ (c_pc = "reencoded" /\ StartedFromPayload /\ c_in.value[6] = 3)
         => c_back = Return(c_in)

\* Raw value 12345 (x = 12345 / 65535 = 0.18837...) came back from the round
\* trip through the 5-digit fraction 0.18837.
C5_Witness ==
    /\ c_pc = "reencoded"
    /\ Word(c_in.value, 1) = 12345
    /\ Get(c_value.ret.color)[1] = Frac(18837, 100000)
    /\ Word(c_back.ret.value, 1) = 12345

\* C6: for every 6-byte payload the decoded colour is present exactly when
\* bit 1 of byte 5 is set and the decoded brightness exactly when bit 0 is
\* set, whatever the other bytes and bits are; encoding a value and decoding
\* the result keeps each field present or absent as it was, and keeps the
\* brightness.
C6_ValidityBits ==
    /\ (c_pc \in {"decoded", "reencoded"} /\ StartedFromPayload)
         => /\ ~IsNone(c_value.ret.color) <=> c_in.value[6] % 4 >= 2
            /\ ~IsNone(c_value.ret.brightness) <=> c_in.value[6] % 2 = 1
            /\ ~IsNone(c_value.ret.brightness)
                 => Get(c_value.ret.brightness) = c_in.value[5]
    /\ c_pc = "roundtrip"
         => /\ Returned(c_back)
            /\ IsNone(c_back.ret.color) <=> IsNone(c_value.ret.color)
            /\ c_back.ret.brightness = c_value.ret.brightness

\* The colour bytes are FF FF FF FF and every bit of byte 5 but the colour
\* bit is set: the colour is absent, the brightness present.
C6_Witness ==
    /\ c_pc = "decoded"
    /\ c_in = DPTArray(<<255, 255, 255, 255, 250, 253>>)
    /\ c_value = Return(XYYColor(None, Some(250)))

\* A value with a present axis outside [0, 1] or a present brightness
\* outside [0, 255].
BadValue(v) ==
    \/ ~IsNone(v.color)
       /\ \E i \in 1..2 : Get(v.color)[i].num < 0 \/ Get(v.color)[i].num > Get(v.color)[i].den
    \/ ~IsNone(v.brightness)
       /\ (Get(v.brightness) < 0 \/ Get(v.brightness) > 255)

\* C7: to_knx raises the conversion error, and returns no payload, exactly
\* when a present axis is outside [0, 1] or a present brightness is outside
\* [0, 255]; values on the boundaries are accepted, and an accepted
\* brightness is emitted as it is.  from_dict raises the conversion error
\* when both axes are given and one is outside [0, 1].
C7_RangeRejection ==
    /\ c_payload # Unset
         => /\ Raised(c_payload) <=> BadValue(c_value.ret)
            /\ Raised(c_payload) => c_payload = ConversionError
            /\ (Returned(c_payload) /\ ~IsNone(c_value.ret.brightness))
                 => c_payload.ret.value[5] = Get(c_value.ret.brightness)
    /\ (StartedFromDict /\ c_value # Unset /\ AxisOutOfDomain(c_in))
         => c_value = ConversionError

\* to_knx was given x = 2 and raised.
C7_Witness ==
    /\ c_pc = "raised"
    /\ c_value = Return(XYYColor(Some(<<Frac(2, 1), Frac(0, 1)>>), Some(1)))
    /\ c_payload = ConversionError

\* A mapping that gives exactly one of x_axis and y_axis.
HalfPair(data) == IsNone(data.x_axis) # IsNone(data.y_axis)

\* C8: a mapping that gives exactly one of x_axis and y_axis is rejected
\* with a conversion error: no XYYColor is made of it and no payload.
C8_AtomicPair ==
    (StartedFromDict /\ HalfPair(c_in))
      => /\ c_pc \in {"dict", "raised"}
         /\ c_pc = "raised" => c_value = ConversionError

\* C9: a payload to_knx returns has 6 bytes, each in 0..255; bytes 0-1 are
\* the integer nearest to x * 65535 and bytes 2-3 the integer nearest to
\* y * 65535, big-endian; byte 4 is the brightness; byte 5 is
\* (color_valid << 1) | brightness_valid; the bytes of an absent field are
\* zero.  x = 1, y = 0.9, brightness 102 gives FF FF E6 66 66 03.
Nearest(n, q) == Abs(n * q.den - q.num) * 2 <= q.den

C9_Layout ==
    (c_payload # Unset /\ Returned(c_payload))
      => LET v == c_value.ret
             b == c_payload.ret.value
         IN  /\ c_payload.ret.kind = "DPTArray"
             /\ Len(b) = 6
             /\ \A i \in 1..6 : b[i] \in 0..255
             /\ IF IsNone(v.color)
                THEN b[1] = 0 /\ b[2] = 0 /\ b[3] = 0 /\ b[4] = 0
                ELSE /\ Nearest(Word(b, 1), MulInt(Get(v.color)[1], 65535))
                     /\ Nearest(Word(b, 3), MulInt(Get(v.color)[2], 65535))
             /\ b[5] = IF IsNone(v.brightness) THEN 0 ELSE Get(v.brightness)
             /\ b[6] = (IF IsNone(v.color) THEN 0 ELSE 2)
                       + (IF IsNone(v.brightness) THEN 0 ELSE 1)
             /\ v = XYYColor(Some(<<Frac(1, 1), Frac(9, 10)>>), Some(102))
                  => b = <<255, 255, 230, 102, 102, 3>>

\* The test's value was encoded.
C9_Witness ==
    /\ c_pc = "encoded"
    /\ c_in = Dict(Some(Frac(1, 1)), Some(Frac(9, 10)), Some(102))
    /\ c_payload = Return(DPTArray(<<255, 255, 230, 102, 102, 3>>))

\* C10: from_knx raises the conversion error exactly when the payload is
\* not an array of 6 bytes; every array of 6 bytes is decoded.
C10_StructuralRejection ==
    (StartedFromPayload /\ c_value # Unset)
      => /\ Raised(c_value) <=> ~(c_in.kind = "DPTArray" /\ Len(c_in.value) = 6)
         /\ Raised(c_value) => c_value = ConversionError

\* The 4-byte array was rejected.
C10_Witness ==
    /\ c_pc = "raised"
    /\ c_in = DPTArray(<<100, 101, 102, 103>>)
    /\ c_value = ConversionError

====
